---------------------------- MODULE Spec2Model ----------------------------
(***************************************************************************)
(* State-machine model of src/app.js: the express handlers of the video    *)
(* library backend, the sqlite tables they read and write, the session     *)
(* store, and the upstream fetches of GET /api/liked-videos.               *)
(*                                                                         *)
(* Every request occupies one slot.  A handler runs its synchronous part   *)
(* (identity gate, validation, submitting the SQL statement) in one step;  *)
(* the statement is executed by the store in a second step; the callback   *)
(* of the statement runs in a third step.  The fan-out of liked-videos     *)
(* completes one axios.get at a time, in any order.                        *)
(***************************************************************************)
EXTENDS Integers, Sequences, FiniteSets, TLC

(* ------------------------------ bounds -------------------------------- *)
\* rows ever inserted into saved_videos and liked_videos together; the clock
\* is capped by it too (timestamps are only compared with each other)
MaxRows == 2

(* ------------------------------ inputs -------------------------------- *)
\* requests being served at the same time
Slots == {1, 2}
Sessions == {"sidA", "sidB", "sidC"}
Videos == {"A", "B"}
NoUser == 0
\* rows of the users table (src/app.js:19-25); passwords are stored hashed
Hash(p) == <<"bcrypt", p>>
Users == { [id |-> 1, email |-> "u@x", password |-> Hash("pw1"), name |-> "u"],
           [id |-> 2, email |-> "w@x", password |-> Hash("pw2"), name |-> "w"] }
UserIds == {u.id : u \in Users}
Emails == {"", "u@x", "w@x", "z@x"}
Passwords == {"", "pw1", "pw2"}
\* a missing or empty body field is the empty string
VideoIdInputs == Videos \cup {""}
TextInputs == {"", "x"}
\* bodies of save-video: complete, or lacking one field, or lacking all
SaveBodies ==
  LET all == [videoId : VideoIdInputs, title : TextInputs,
              thumbnail : TextInputs, channel : TextInputs]
      lacks(b) == Cardinality({f \in {"videoId", "title", "thumbnail", "channel"} : b[f] = ""})
  IN {b \in all : lacks(b) \in {0, 4} \/ (lacks(b) = 1 /\ b.videoId \in {"", "A"})}
LikeBodies == [videoId : VideoIdInputs]
\* errors the store can report for a statement (disk, busy, ...)
StoreErrors == {"SQLITE_IOERR: disk I/O error"}
NoErr == ""
Durations == {60}

VARIABLES
  session,        \* session store: session id -> userId (NoUser when absent)
  saved_videos,   \* table saved_videos: set of rows
  liked_videos,   \* table liked_videos: set of rows
  seq_saved,      \* sqlite_sequence of saved_videos (last AUTOINCREMENT id)
  seq_liked,      \* sqlite_sequence of liked_videos
  clock,          \* CURRENT_TIMESTAMP
  req             \* request slots

vars == <<session, saved_videos, liked_videos, seq_saved, seq_liked, clock, req>>

(* --------------------------- request records --------------------------- *)
NoParams == [user_id |-> NoUser, video_id |-> "", title |-> "", thumbnail |-> "",
             channel |-> "", email |-> "", password |-> ""]
NoDbRes == [err |-> NoErr, lastID |-> 0, changes |-> 0, rows |-> <<>>]
IdleReq == [pc |-> "idle", op |-> "", sid |-> "", params |-> NoParams,
            dbres |-> NoDbRes, fetches |-> <<>>, res |-> <<>>]

\* res.status(s).json({error: e})
ErrorResponse(s, e) == [status |-> s, error |-> e, id |-> 0, list |-> <<>>]
\* res.json({success: true, ...Id: id})
SuccessResponse(id) == [status |-> 200, error |-> "", id |-> id, list |-> <<>>]
\* res.json(array)
ListResponse(l) == [status |-> 200, error |-> "", id |-> 0, list |-> l]

\* a request answered in the synchronous part of its handler
Answered(op, s, response) ==
  [IdleReq EXCEPT !.pc = "done", !.op = op, !.res = <<response>>]
\* a request whose statement was handed to the store
Submitted(op, s, p) ==
  [IdleReq EXCEPT !.pc = "db", !.op = op, !.sid = s, !.params = p]

FreeSlot(r) == req[r].pc = "idle"

\* rows inserted so far, and INSERT statements submitted and not yet executed
Inserted == seq_saved + seq_liked +
  Cardinality({r \in Slots : req[r].pc = "db" /\ req[r].op \in {"save-video", "like-video"}})

Init ==
  /\ session = [s \in Sessions |-> NoUser]
  /\ saved_videos = {}
  /\ liked_videos = {}
  /\ seq_saved = 0
  /\ seq_liked = 0
  /\ clock = 0
  /\ req = [r \in Slots |-> IdleReq]

\* the wall clock advances by a second.  Timestamps are only compared with
\* each other, so seconds in which no row present was stamped are skipped
Tick ==
  /\ \/ \E row \in saved_videos : row.saved_at = clock
     \/ \E row \in liked_videos : row.liked_at = clock
  /\ clock' = clock + 1
  /\ UNCHANGED <<session, saved_videos, liked_videos, seq_saved, seq_liked, req>>

(* ----------------------------- identity gate --------------------------- *)
\* requireLogin with a fault: next() is called whatever the session holds
requireLoginSkipped(s) == TRUE

\* requireLogin: TRUE when next() is called, FALSE when it answers 401
requireLogin(s) == session[s] # NoUser

Unauthorized == ErrorResponse(401, "Unauthorized")

(* ------------------------------ the store ------------------------------ *)
\* rows matched by WHERE user_id = ? AND video_id = ?
Matching(tbl, u, v) == {row \in tbl : row.user_id = u /\ row.video_id = v}

\* InsertSaved with a fault: a video already saved by the user is not saved again
InsertSavedOnce(tbl, id, p, now) ==
  IF Matching(tbl, p.user_id, p.video_id) # {} THEN tbl
  ELSE tbl \cup {[id |-> id, user_id |-> p.user_id, video_id |-> p.video_id,
                  title |-> p.title, thumbnail |-> p.thumbnail, channel |-> p.channel,
                  saved_at |-> now]}

\* INSERT INTO saved_videos (user_id, video_id, title, thumbnail, channel);
\* id is the AUTOINCREMENT key, saved_at defaults to CURRENT_TIMESTAMP
InsertSaved(tbl, id, p, now) ==
  tbl \cup {[id |-> id, user_id |-> p.user_id, video_id |-> p.video_id,
             title |-> p.title, thumbnail |-> p.thumbnail, channel |-> p.channel,
             saved_at |-> now]}

\* INSERT INTO liked_videos (user_id, video_id); the table declares no
\* UNIQUE(user_id, video_id), so the insert never fails on a duplicate
InsertLiked(tbl, id, p, now) ==
  tbl \cup {[id |-> id, user_id |-> p.user_id, video_id |-> p.video_id,
             liked_at |-> now]}

\* DeleteWhere with a fault: DELETE ... LIMIT 1
DeleteOne(tbl, u, v) ==
  IF Matching(tbl, u, v) = {} THEN tbl
  ELSE tbl \ {CHOOSE row \in Matching(tbl, u, v) : TRUE}

\* DeleteWhere with a fault: DELETE ... WHERE video_id = ?, whoever owns the row
DeleteByVideo(tbl, u, v) == {row \in tbl : row.video_id # v}

\* DELETE FROM <tbl> WHERE user_id = ? AND video_id = ?
DeleteWhere(tbl, u, v) == tbl \ Matching(tbl, u, v)

\* OwnedBy with a fault: the WHERE user_id = ? clause is missing
OwnedByAnyone(tbl, u) == tbl

\* rows matched by WHERE user_id = ?
OwnedBy(tbl, u) == {row \in tbl : row.user_id = u}

\* all arrangements of a finite set as a sequence
Arrangements(S) ==
  {q \in [1..Cardinality(S) -> S] : \A i, j \in 1..Cardinality(S) : i # j => q[i] # q[j]}

\* OrderByLikedAtDesc with a fault: ORDER BY liked_at ASC
OrderByLikedAtAsc(S) ==
  {q \in Arrangements(S) : \A i, j \in 1..Len(q) : i < j => q[i].liked_at <= q[j].liked_at}

\* ORDER BY liked_at DESC: rows with equal liked_at come in any order
OrderByLikedAtDesc(S) ==
  {q \in Arrangements(S) : \A i, j \in 1..Len(q) : i < j => q[i].liked_at >= q[j].liked_at}

\* ORDER BY saved_at DESC
OrderBySavedAtDesc(S) ==
  {q \in Arrangements(S) : \A i, j \in 1..Len(q) : i < j => q[i].saved_at >= q[j].saved_at}

\* SELECT video_id as videoId FROM liked_videos WHERE user_id = ? ORDER BY liked_at DESC
SelectLiked(tbl, u) ==
  {[i \in 1..Len(q) |-> [videoId |-> q[i].video_id]] : q \in OrderByLikedAtDesc(OwnedBy(tbl, u))}

\* SELECT video_id as videoId, title, thumbnail, channel, saved_at as savedAt ...
SelectSaved(tbl, u) ==
  {[i \in 1..Len(q) |-> [videoId |-> q[i].video_id, title |-> q[i].title,
                         thumbnail |-> q[i].thumbnail, channel |-> q[i].channel,
                         savedAt |-> q[i].saved_at]] : q \in OrderBySavedAtDesc(OwnedBy(tbl, u))}

\* SELECT * FROM users WHERE email = ?  (email is UNIQUE)
SelectUser(email) ==
  LET found == {u \in Users : u.email = email}
  IN IF found = {} THEN <<>> ELSE <<CHOOSE u \in found : TRUE>>

Outcomes == StoreErrors \cup {NoErr}
DatabaseError == ErrorResponse(500, "Database error")

\* the statement of request r has run: its result waits for the callback
Executed(r, result) == [req EXCEPT ![r].pc = "cb", ![r].dbres = result]
\* Finished with a fault: a failure is swallowed, the callback returns
\* without sending anything
FinishedSwallowing(r, response) ==
  [req EXCEPT ![r] = [IdleReq EXCEPT !.pc = "done", !.op = req[r].op,
                        !.res = IF response.status = 500 THEN <<>> ELSE <<response>>]]
\* the callback of request r has answered
Finished(r, response) ==
  [req EXCEPT ![r] = [IdleReq EXCEPT !.pc = "done", !.op = req[r].op, !.res = <<response>>]]

(* --------------------------- POST /api/login --------------------------- *)
login(r, s, email, password) ==
  /\ FreeSlot(r)
  /\ req' = [req EXCEPT ![r] =
       IF email = "" \/ password = ""
       THEN Answered("login", s, ErrorResponse(400, "Email and password are required"))
       ELSE Submitted("login", s, [NoParams EXCEPT !.email = email, !.password = password])]
  /\ UNCHANGED <<session, saved_videos, liked_videos, seq_saved, seq_liked, clock>>

\* db.get('SELECT * FROM users WHERE email = ?')
login_db_get(r, err) ==
  /\ req[r].pc = "db" /\ req[r].op = "login"
  /\ req' = Executed(r, IF err # NoErr THEN [NoDbRes EXCEPT !.err = err]
                        ELSE [NoDbRes EXCEPT !.rows = SelectUser(req[r].params.email)])
  /\ UNCHANGED <<session, saved_videos, liked_videos, seq_saved, seq_liked, clock>>

\* the callback of db.get, up to await bcrypt.compare
login_cb(r) ==
  /\ req[r].pc = "cb" /\ req[r].op = "login"
  /\ req' = IF req[r].dbres.err # NoErr THEN Finished(r, DatabaseError)
            ELSE IF req[r].dbres.rows = <<>>
                 THEN Finished(r, ErrorResponse(401, "Invalid credentials"))
                 ELSE [req EXCEPT ![r].pc = "bcrypt"]
  /\ UNCHANGED <<session, saved_videos, liked_videos, seq_saved, seq_liked, clock>>

\* login_compare with a fault: the session is marked before the outcome of
\* bcrypt.compare is looked at
login_compare_Early(r) ==
  /\ req[r].pc = "bcrypt"
  /\ LET user == req[r].dbres.rows[1]
         match == Hash(req[r].params.password) = user.password
     IN /\ session' = [session EXCEPT ![req[r].sid] = user.id]
        /\ req' = IF match THEN Finished(r, SuccessResponse(user.id))
                  ELSE Finished(r, ErrorResponse(401, "Invalid credentials"))
  /\ UNCHANGED <<saved_videos, liked_videos, seq_saved, seq_liked, clock>>

\* bcrypt.compare resolved: the rest of the callback
login_compare(r) ==
  /\ req[r].pc = "bcrypt"
  /\ LET user == req[r].dbres.rows[1]
         match == Hash(req[r].params.password) = user.password
     IN IF ~match
        THEN /\ req' = Finished(r, ErrorResponse(401, "Invalid credentials"))
             /\ UNCHANGED session
        ELSE /\ session' = [session EXCEPT ![req[r].sid] = user.id]
             /\ req' = Finished(r, SuccessResponse(user.id))
  /\ UNCHANGED <<saved_videos, liked_videos, seq_saved, seq_liked, clock>>

(* --------------------------- POST /api/logout -------------------------- *)
logout(r, s) ==
  /\ FreeSlot(r)
  /\ req' = [req EXCEPT ![r] = Submitted("logout", s, NoParams)]
  /\ UNCHANGED <<session, saved_videos, liked_videos, seq_saved, seq_liked, clock>>

\* req.session.destroy: the session store drops the session
logout_destroy(r, err) ==
  /\ req[r].pc = "db" /\ req[r].op = "logout"
  /\ session' = IF err # NoErr THEN session ELSE [session EXCEPT ![req[r].sid] = NoUser]
  /\ req' = Executed(r, [NoDbRes EXCEPT !.err = err])
  /\ UNCHANGED <<saved_videos, liked_videos, seq_saved, seq_liked, clock>>

logout_cb(r) ==
  /\ req[r].pc = "cb" /\ req[r].op = "logout"
  /\ req' = IF req[r].dbres.err # NoErr THEN Finished(r, ErrorResponse(500, "Logout failed"))
            ELSE Finished(r, SuccessResponse(0))
  /\ UNCHANGED <<session, saved_videos, liked_videos, seq_saved, seq_liked, clock>>

(* ------------------------- POST /api/save-video ------------------------ *)
\* ValidSaveBody with a fault: channel is not checked
ValidSaveBodyNoChannel(b) == b.videoId # "" /\ b.title # "" /\ b.thumbnail # ""

ValidSaveBody(b) == b.videoId # "" /\ b.title # "" /\ b.thumbnail # "" /\ b.channel # ""

save_video(r, s, b) ==
  /\ FreeSlot(r)
  /\ IF ~requireLogin(s) THEN req' = [req EXCEPT ![r] = Answered("save-video", s, Unauthorized)]
     ELSE IF ~ValidSaveBody(b)
     THEN req' = [req EXCEPT ![r] =
            Answered("save-video", s, ErrorResponse(400, "All video fields are required"))]
     ELSE /\ Inserted < MaxRows
          /\ req' = [req EXCEPT ![r] = Submitted("save-video", s,
                [NoParams EXCEPT !.user_id = session[s], !.video_id = b.videoId,
                   !.title = b.title, !.thumbnail = b.thumbnail, !.channel = b.channel])]
  /\ UNCHANGED <<session, saved_videos, liked_videos, seq_saved, seq_liked, clock>>

save_video_db_run(r, err) ==
  /\ req[r].pc = "db" /\ req[r].op = "save-video"
  /\ IF err # NoErr
     THEN /\ req' = Executed(r, [NoDbRes EXCEPT !.err = err])
          /\ UNCHANGED <<saved_videos, seq_saved>>
     ELSE /\ saved_videos' = InsertSaved(saved_videos, seq_saved + 1, req[r].params, clock)
          /\ seq_saved' = seq_saved + 1
          /\ req' = Executed(r, [NoDbRes EXCEPT !.lastID = seq_saved + 1, !.changes = 1])
  /\ UNCHANGED <<session, liked_videos, seq_liked, clock>>

save_video_cb(r) ==
  /\ req[r].pc = "cb" /\ req[r].op = "save-video"
  /\ req' = IF req[r].dbres.err # NoErr THEN Finished(r, DatabaseError)
            ELSE Finished(r, SuccessResponse(req[r].dbres.lastID))
  /\ UNCHANGED <<session, saved_videos, liked_videos, seq_saved, seq_liked, clock>>

(* ------------------------- POST /api/like-video ------------------------ *)
ValidLikeBody(b) == b.videoId # ""

like_video(r, s, b) ==
  /\ FreeSlot(r)
  /\ IF ~requireLogin(s) THEN req' = [req EXCEPT ![r] = Answered("like-video", s, Unauthorized)]
     ELSE IF ~ValidLikeBody(b)
     THEN req' = [req EXCEPT ![r] =
            Answered("like-video", s, ErrorResponse(400, "Video ID is required"))]
     ELSE /\ Inserted < MaxRows
          /\ req' = [req EXCEPT ![r] = Submitted("like-video", s,
                [NoParams EXCEPT !.user_id = session[s], !.video_id = b.videoId])]
  /\ UNCHANGED <<session, saved_videos, liked_videos, seq_saved, seq_liked, clock>>

like_video_db_run(r, err) ==
  /\ req[r].pc = "db" /\ req[r].op = "like-video"
  /\ IF err # NoErr
     THEN /\ req' = Executed(r, [NoDbRes EXCEPT !.err = err])
          /\ UNCHANGED <<liked_videos, seq_liked>>
     ELSE /\ liked_videos' = InsertLiked(liked_videos, seq_liked + 1, req[r].params, clock)
          /\ seq_liked' = seq_liked + 1
          /\ req' = Executed(r, [NoDbRes EXCEPT !.lastID = seq_liked + 1, !.changes = 1])
  /\ UNCHANGED <<session, saved_videos, seq_saved, clock>>

\* err.message.includes('UNIQUE constraint failed')
IsUniqueViolation(err) == err = "SQLITE_CONSTRAINT: UNIQUE constraint failed"

like_video_cb(r) ==
  /\ req[r].pc = "cb" /\ req[r].op = "like-video"
  /\ req' = IF req[r].dbres.err # NoErr
            THEN IF IsUniqueViolation(req[r].dbres.err)
                 THEN Finished(r, ErrorResponse(400, "Video already liked"))
                 ELSE Finished(r, DatabaseError)
            ELSE Finished(r, SuccessResponse(req[r].dbres.lastID))
  /\ UNCHANGED <<session, saved_videos, liked_videos, seq_saved, seq_liked, clock>>


(* -------------------- DELETE /api/unlike-video/:videoId ---------------- *)
unlike_video(r, s, v) ==
  /\ FreeSlot(r)
  /\ req' = [req EXCEPT ![r] =
       IF ~requireLogin(s) THEN Answered("unlike-video", s, Unauthorized)
       ELSE Submitted("unlike-video", s,
              [NoParams EXCEPT !.user_id = session[s], !.video_id = v])]
  /\ UNCHANGED <<session, saved_videos, liked_videos, seq_saved, seq_liked, clock>>

unlike_video_db_run(r, err) ==
  /\ req[r].pc = "db" /\ req[r].op = "unlike-video"
  /\ LET p == req[r].params
     IN IF err # NoErr
        THEN /\ req' = Executed(r, [NoDbRes EXCEPT !.err = err])
             /\ UNCHANGED liked_videos
        ELSE /\ liked_videos' = DeleteWhere(liked_videos, p.user_id, p.video_id)
             /\ req' = Executed(r, [NoDbRes EXCEPT !.changes =
                          Cardinality(liked_videos) - Cardinality(liked_videos')])
  /\ UNCHANGED <<session, saved_videos, seq_saved, seq_liked, clock>>

unlike_video_cb(r) ==
  /\ req[r].pc = "cb" /\ req[r].op = "unlike-video"
  /\ req' = IF req[r].dbres.err # NoErr THEN Finished(r, DatabaseError)
            ELSE IF req[r].dbres.changes = 0
                 THEN Finished(r, ErrorResponse(404, "Like not found"))
                 ELSE Finished(r, SuccessResponse(0))
  /\ UNCHANGED <<session, saved_videos, liked_videos, seq_saved, seq_liked, clock>>

(* -------------------- DELETE /api/unsave-video/:videoId ---------------- *)
unsave_video(r, s, v) ==
  /\ FreeSlot(r)
  /\ req' = [req EXCEPT ![r] =
       IF ~requireLogin(s) THEN Answered("unsave-video", s, Unauthorized)
       ELSE Submitted("unsave-video", s,
              [NoParams EXCEPT !.user_id = session[s], !.video_id = v])]
  /\ UNCHANGED <<session, saved_videos, liked_videos, seq_saved, seq_liked, clock>>

unsave_video_db_run(r, err) ==
  /\ req[r].pc = "db" /\ req[r].op = "unsave-video"
  /\ LET p == req[r].params
     IN IF err # NoErr
        THEN /\ req' = Executed(r, [NoDbRes EXCEPT !.err = err])
             /\ UNCHANGED saved_videos
        ELSE /\ saved_videos' = DeleteWhere(saved_videos, p.user_id, p.video_id)
             /\ req' = Executed(r, [NoDbRes EXCEPT !.changes =
                          Cardinality(saved_videos) - Cardinality(saved_videos')])
  /\ UNCHANGED <<session, liked_videos, seq_saved, seq_liked, clock>>

unsave_video_cb(r) ==
  /\ req[r].pc = "cb" /\ req[r].op = "unsave-video"
  /\ req' = IF req[r].dbres.err # NoErr THEN Finished(r, DatabaseError)
            ELSE IF req[r].dbres.changes = 0
                 THEN Finished(r, ErrorResponse(404, "Saved video not found"))
                 ELSE Finished(r, SuccessResponse(0))
  /\ UNCHANGED <<session, saved_videos, liked_videos, seq_saved, seq_liked, clock>>

(* ------------------------- GET /api/saved-videos ----------------------- *)
saved_videos_get(r, s) ==
  /\ FreeSlot(r)
  /\ req' = [req EXCEPT ![r] =
       IF ~requireLogin(s) THEN Answered("saved-videos", s, Unauthorized)
       ELSE Submitted("saved-videos", s, [NoParams EXCEPT !.user_id = session[s]])]
  /\ UNCHANGED <<session, saved_videos, liked_videos, seq_saved, seq_liked, clock>>

saved_videos_db_all(r, err) ==
  /\ req[r].pc = "db" /\ req[r].op = "saved-videos"
  /\ IF err # NoErr
     THEN req' = Executed(r, [NoDbRes EXCEPT !.err = err])
     ELSE \E rows \in SelectSaved(saved_videos, req[r].params.user_id) :
            req' = Executed(r, [NoDbRes EXCEPT !.rows = rows])
  /\ UNCHANGED <<session, saved_videos, liked_videos, seq_saved, seq_liked, clock>>

saved_videos_cb(r) ==
  /\ req[r].pc = "cb" /\ req[r].op = "saved-videos"
  /\ req' = IF req[r].dbres.err # NoErr THEN Finished(r, DatabaseError)
            ELSE Finished(r, ListResponse(req[r].dbres.rows))
  /\ UNCHANGED <<session, saved_videos, liked_videos, seq_saved, seq_liked, clock>>

(* ------------------------- GET /api/liked-videos ----------------------- *)
\* what GET PIPED_API_BASE/streams/<videoId> can answer with
StreamData(v) == {[title |-> <<"title", v>>, thumbnailUrl |-> <<"thumbnailUrl", v>>,
                   uploader |-> <<"uploader", v>>, duration |-> d] : d \in Durations}
NoData == [title |-> <<>>, thumbnailUrl |-> <<>>, uploader |-> <<>>, duration |-> 0]

\* one axios.get of the fan-out: in flight, resolved with data, or rejected
PendingFetch == [st |-> "pending", data |-> NoData]
ResolvedFetch(data) == [st |-> "ok", data |-> data]
RejectedFetch == [st |-> "fail", data |-> NoData]

\* EnrichedVideo with a fault: uploader and thumbnailUrl end up in each other's field
EnrichedVideoSwapped(like, data) ==
  [videoId |-> like.videoId, title |-> data.title, thumbnail |-> data.uploader,
   channel |-> data.thumbnailUrl, duration |-> data.duration]

\* the object the mapper returns for one like
EnrichedVideo(like, data) ==
  [videoId |-> like.videoId, title |-> data.title, thumbnail |-> data.thumbnailUrl,
   channel |-> data.uploader, duration |-> data.duration]

EnrichmentFailed == ErrorResponse(500, "Failed to fetch video details")

\* PromiseAll with a fault: Promise.allSettled, answering with the fetches that
\* resolved
PromiseAllSettled(likes, fetches) ==
  IF \E i \in 1..Len(fetches) : fetches[i].st = "pending" THEN <<>>
  ELSE LET ok == SelectSeq([i \in 1..Len(fetches) |-> i], LAMBDA i : fetches[i].st = "ok")
       IN <<ListResponse([k \in 1..Len(ok) |-> EnrichedVideo(likes[ok[k]], fetches[ok[k]].data)])>>

\* PromiseAll with a fault: an empty liked list is taken for a failure
PromiseAllEmptyFails(likes, fetches) ==
  IF fetches = <<>> \/ \E i \in 1..Len(fetches) : fetches[i].st = "fail" THEN <<EnrichmentFailed>>
  ELSE IF \A i \in 1..Len(fetches) : fetches[i].st = "ok"
       THEN <<ListResponse([i \in 1..Len(fetches) |-> EnrichedVideo(likes[i], fetches[i].data)])>>
       ELSE <<>>

\* PromiseAll with a fault: Promise.any-like, the list is sent as soon as one
\* fetch has resolved, with whatever the others hold by then
PromiseAllEager(likes, fetches) ==
  IF \E i \in 1..Len(fetches) : fetches[i].st = "fail" THEN <<EnrichmentFailed>>
  ELSE IF fetches = <<>> \/ \E i \in 1..Len(fetches) : fetches[i].st = "ok"
       THEN <<ListResponse([i \in 1..Len(fetches) |-> EnrichedVideo(likes[i], fetches[i].data)])>>
       ELSE <<>>

\* await Promise.all(...) followed by try/catch: the response to send now,
\* as a sequence (empty while the promise is unsettled)
PromiseAll(likes, fetches) ==
  IF \E i \in 1..Len(fetches) : fetches[i].st = "fail" THEN <<EnrichmentFailed>>
  ELSE IF \A i \in 1..Len(fetches) : fetches[i].st = "ok"
       THEN <<ListResponse([i \in 1..Len(fetches) |-> EnrichedVideo(likes[i], fetches[i].data)])>>
       ELSE <<>>

liked_videos_get(r, s) ==
  /\ FreeSlot(r)
  /\ req' = [req EXCEPT ![r] =
       IF ~requireLogin(s) THEN Answered("liked-videos", s, Unauthorized)
       ELSE Submitted("liked-videos", s, [NoParams EXCEPT !.user_id = session[s]])]
  /\ UNCHANGED <<session, saved_videos, liked_videos, seq_saved, seq_liked, clock>>

liked_videos_db_all(r, err) ==
  /\ req[r].pc = "db" /\ req[r].op = "liked-videos"
  /\ IF err # NoErr
     THEN req' = Executed(r, [NoDbRes EXCEPT !.err = err])
     ELSE \E rows \in SelectLiked(liked_videos, req[r].params.user_id) :
            req' = Executed(r, [NoDbRes EXCEPT !.rows = rows])
  /\ UNCHANGED <<session, saved_videos, liked_videos, seq_saved, seq_liked, clock>>

\* liked_videos_cb with a fault: the liked ids are read again when the
\* fan-out starts
liked_videos_cb_Rereading(r) ==
  /\ req[r].pc = "cb" /\ req[r].op = "liked-videos"
  /\ \E likes \in SelectLiked(liked_videos, req[r].params.user_id) :
       LET fetches == [i \in 1..Len(likes) |-> PendingFetch]
       IN req' = IF req[r].dbres.err # NoErr THEN Finished(r, DatabaseError)
                 ELSE [req EXCEPT ![r].pc = IF likes = <<>> THEN "done" ELSE "fetch",
                                  ![r].dbres.rows = likes,
                                  ![r].fetches = fetches,
                                  ![r].res = PromiseAll(likes, fetches)]
  /\ UNCHANGED <<session, saved_videos, liked_videos, seq_saved, seq_liked, clock>>

\* the callback of db.all: every axios.get is issued before the first await
\* returns; Promise.all of no promises resolves at once
liked_videos_cb(r) ==
  /\ req[r].pc = "cb" /\ req[r].op = "liked-videos"
  /\ LET likes == req[r].dbres.rows
         fetches == [i \in 1..Len(likes) |-> PendingFetch]
     IN req' = IF req[r].dbres.err # NoErr THEN Finished(r, DatabaseError)
               ELSE [req EXCEPT ![r].pc = IF likes = <<>> THEN "done" ELSE "fetch",
                                ![r].fetches = fetches,
                                ![r].res = PromiseAll(likes, fetches)]
  /\ UNCHANGED <<session, saved_videos, liked_videos, seq_saved, seq_liked, clock>>

\* one axios.get settles; the response is sent when Promise.all settles, once
axios_get(r, i, outcome) ==
  /\ req[r].pc = "fetch"
  /\ i \in 1..Len(req[r].fetches)
  /\ req[r].fetches[i].st = "pending"
  /\ outcome \in {RejectedFetch} \cup
                 {ResolvedFetch(d) : d \in StreamData(req[r].dbres.rows[i].videoId)}
  /\ LET fetches == [req[r].fetches EXCEPT ![i] = outcome]
     IN req' = [req EXCEPT
          ![r].fetches = fetches,
          ![r].res = IF req[r].res # <<>> THEN req[r].res
                     ELSE PromiseAll(req[r].dbres.rows, fetches),
          ![r].pc = IF \E j \in 1..Len(fetches) : fetches[j].st = "pending"
                    THEN "fetch" ELSE "done"]
  /\ UNCHANGED <<session, saved_videos, liked_videos, seq_saved, seq_liked, clock>>

(* ----------------------------------------------------------------------- *)
\* the answered request leaves its slot
Recycle(r) ==
  /\ req[r].pc = "done"
  /\ req' = [req EXCEPT ![r] = IdleReq]
  /\ UNCHANGED <<session, saved_videos, liked_videos, seq_saved, seq_liked, clock>>

FetchOutcomes == {RejectedFetch} \cup UNION {{ResolvedFetch(d) : d \in StreamData(v)} : v \in Videos}

\* the handlers' synchronous parts, one request taking slot r
Commands(r) ==
  \E s \in Sessions :
    \/ \E b \in SaveBodies : save_video(r, s, b)
    \/ \E b \in LikeBodies : like_video(r, s, b)
    \/ \E v \in Videos : unlike_video(r, s, v)
    \/ \E v \in Videos : unsave_video(r, s, v)

Queries(r) ==
  \E s \in Sessions :
    \/ saved_videos_get(r, s)
    \/ liked_videos_get(r, s)

Auth(r) ==
  \E s \in Sessions :
    \/ \E e \in Emails, p \in Passwords : login(r, s, e, p)
    \/ logout(r, s)

\* the store executes the statement of request r
CommandsDb(r) ==
  \E err \in Outcomes :
    \/ save_video_db_run(r, err)
    \/ like_video_db_run(r, err)
    \/ unlike_video_db_run(r, err)
    \/ unsave_video_db_run(r, err)

QueriesDb(r) ==
  \E err \in Outcomes :
    \/ saved_videos_db_all(r, err)
    \/ liked_videos_db_all(r, err)

AuthDb(r) ==
  \E err \in Outcomes :
    \/ login_db_get(r, err)
    \/ logout_destroy(r, err)

\* callbacks and promise continuations of request r
CommandsCb(r) ==
  \/ save_video_cb(r)
  \/ like_video_cb(r)
  \/ unlike_video_cb(r)
  \/ unsave_video_cb(r)

QueriesCb(r) ==
  \/ saved_videos_cb(r)
  \/ liked_videos_cb(r)
  \/ \E i \in 1..MaxRows, o \in FetchOutcomes : axios_get(r, i, o)

AuthCb(r) ==
  \/ login_cb(r)
  \/ login_compare(r)
  \/ logout_cb(r)

\* the whole server, started with an empty session store
Next ==
  \/ Tick
  \/ \E r \in Slots :
       \/ Auth(r) \/ AuthDb(r) \/ AuthCb(r)
       \/ Commands(r) \/ CommandsDb(r) \/ CommandsCb(r)
       \/ Queries(r) \/ QueriesDb(r) \/ QueriesCb(r)
       \/ Recycle(r)

Spec == Init /\ [][Next]_vars

\* the session store (sessions.db) outlives the process: sidA and sidB are
\* sessions of the two users, sidC carries no user
InitSessions ==
  /\ session = [s \in Sessions |-> IF s = "sidA" THEN 1 ELSE IF s = "sidB" THEN 2 ELSE NoUser]
  /\ saved_videos = {}
  /\ liked_videos = {}
  /\ seq_saved = 0
  /\ seq_liked = 0
  /\ clock = 0
  /\ req = [r \in Slots |-> IdleReq]

\* requests are interchangeable: a new one takes the lowest free slot
LowestFree(r) == \A q \in Slots : q < r => req[q].pc # "idle"

\* like and unlike requests, two at a time
NextLikes ==
  \/ Tick
  \/ \E r \in Slots, s \in Sessions :
       \/ \E b \in LikeBodies : LowestFree(r) /\ like_video(r, s, b)
       \/ \E v \in Videos : LowestFree(r) /\ unlike_video(r, s, v)
  \/ \E r \in Slots, err \in Outcomes :
       \/ like_video_db_run(r, err)
       \/ unlike_video_db_run(r, err)
  \/ \E r \in Slots :
       \/ like_video_cb(r)
       \/ unlike_video_cb(r)
       \/ Recycle(r)

SpecLikes == InitSessions /\ [][NextLikes]_vars

\* save and unsave requests, two at a time
NextSaves ==
  \/ Tick
  \/ \E r \in Slots, s \in Sessions :
       \/ \E b \in SaveBodies : LowestFree(r) /\ save_video(r, s, b)
       \/ \E v \in Videos : LowestFree(r) /\ unsave_video(r, s, v)
  \/ \E r \in Slots, err \in Outcomes :
       \/ save_video_db_run(r, err)
       \/ unsave_video_db_run(r, err)
  \/ \E r \in Slots :
       \/ save_video_cb(r)
       \/ unsave_video_cb(r)
       \/ Recycle(r)

SpecSaves == InitSessions /\ [][NextSaves]_vars

\* a liked-videos request in slot 1 while like and unlike requests pass
\* through slot 2
NextLiked ==
  \/ Tick
  \/ \E s \in Sessions : liked_videos_get(1, s)
  \/ \E err \in Outcomes : liked_videos_db_all(1, err)
  \/ liked_videos_cb(1)
  \/ \E i \in 1..MaxRows, o \in FetchOutcomes : axios_get(1, i, o)
  \/ \E s \in Sessions :
       \/ \E b \in LikeBodies : like_video(2, s, b)
       \/ \E v \in Videos : unlike_video(2, s, v)
  \/ \E err \in Outcomes :
       \/ like_video_db_run(2, err)
       \/ unlike_video_db_run(2, err)
  \/ like_video_cb(2)
  \/ unlike_video_cb(2)
  \/ \E r \in Slots : Recycle(r)

SpecLiked == InitSessions /\ [][NextLiked]_vars

\* the six gated operations within one second of the clock: a query in
\* slot 1 while a command is in slot 2
NextLibrary ==
  \/ Queries(1) \/ QueriesDb(1) \/ QueriesCb(1)
  \/ Commands(2) \/ CommandsDb(2) \/ CommandsCb(2)
  \/ \E r \in Slots : Recycle(r)

SpecLibrary == InitSessions /\ [][NextLibrary]_vars

\* the six gated operations when every statement handed to the store is
\* executed, every callback is run and every fetch issued settles
LibraryFairness ==
  /\ WF_vars(QueriesDb(1)) /\ WF_vars(QueriesCb(1))
  /\ WF_vars(CommandsDb(2)) /\ WF_vars(CommandsCb(2))

SpecLibraryLive == SpecLibrary /\ LibraryFairness

\* one request at a time through any of the six gated operations, under
\* the same assumption
NextServe ==
  \/ Commands(1) \/ CommandsDb(1) \/ CommandsCb(1)
  \/ Queries(1) \/ QueriesDb(1) \/ QueriesCb(1)
  \/ Recycle(1)

ServeFairness ==
  /\ WF_vars(CommandsDb(1)) /\ WF_vars(CommandsCb(1))
  /\ WF_vars(QueriesDb(1)) /\ WF_vars(QueriesCb(1))

SpecServe == InitSessions /\ [][NextServe]_vars /\ ServeFairness

\* logins, logouts and gated operations, one request at a time, starting
\* with an empty session store
NextSessions ==
  \/ Auth(1) \/ AuthDb(1) \/ AuthCb(1)
  \/ Commands(1) \/ CommandsDb(1) \/ CommandsCb(1)
  \/ Queries(1) \/ QueriesDb(1) \/ QueriesCb(1)
  \/ Recycle(1)

SpecSessions == Init /\ [][NextSessions]_vars

(* =============================== claims ================================ *)
LikeRequests == {r \in Slots : req[r].op = "like-video"}
\* request r holds the result of an INSERT that went through
InsertedBy(r) == req[r].pc = "cb" /\ req[r].dbres.err = NoErr

\* C1: for every user u and videoId v the store holds at most one
\* liked_videos entry for (u, v) in every reachable state (a second
\* like-video(v) by u is refused and adds nothing).
C1_AtMostOneLike ==
  \A u \in UserIds, v \in Videos : Cardinality(Matching(liked_videos, u, v)) <= 1

\* C2: two like-video requests of one user for one videoId that are in
\* flight together (neither answered yet) never both create an entry.
C2_ConcurrentLikesExclusive ==
  \A r1, r2 \in LikeRequests :
    (/\ r1 # r2
     /\ req[r1].params.user_id = req[r2].params.user_id
     /\ req[r1].params.video_id = req[r2].params.video_id
     /\ InsertedBy(r1))
    => ~InsertedBy(r2)

\* request r is at the step in which the store runs its statement without error
Runs(r, op) ==
  /\ req[r].pc = "db" /\ req[r].op = op
  /\ req'[r].pc = "cb" /\ req'[r].dbres.err = NoErr
\* request r is at the step in which its callback runs after a statement
\* that raised no error
CallsBack(r, op) ==
  /\ req[r].pc = "cb" /\ req[r].op = op /\ req[r].dbres.err = NoErr
  /\ req'[r].pc = "done"
Tables == <<saved_videos, liked_videos, seq_saved, seq_liked>>

\* C6: when the store runs the DELETE of unsave-video(v) for user u holding
\* N saved entries for (u, v), it removes all N and nothing else; the call
\* answers success when N >= 1, and 404 'Saved video not found' with the
\* store unchanged when N = 0.
C6_UnsaveRemovesAll ==
  [][\A r \in Slots :
       LET u == req[r].params.user_id
           v == req[r].params.video_id
           N == Cardinality(Matching(saved_videos, u, v))
       IN /\ Runs(r, "unsave-video") =>
               /\ Matching(saved_videos', u, v) = {}
               /\ saved_videos' = saved_videos \ Matching(saved_videos, u, v)
               /\ req'[r].dbres.changes = N
               /\ N = 0 => saved_videos' = saved_videos
               /\ UNCHANGED <<liked_videos, seq_saved, seq_liked>>
          /\ CallsBack(r, "unsave-video") =>
               /\ req[r].dbres.changes >= 1 => req'[r].res = <<SuccessResponse(0)>>
               /\ req[r].dbres.changes = 0 =>
                    /\ Len(req'[r].res) = 1
                    /\ req'[r].res[1].status = 404
                    /\ req'[r].res[1].error = "Saved video not found"
               /\ UNCHANGED Tables]_vars

\* an unsave-video request whose DELETE removed two entries of (u, v)
C6_Witness ==
  \E r \in Slots :
    /\ req[r].op = "unsave-video" /\ req[r].pc = "cb"
    /\ req[r].dbres.err = NoErr /\ req[r].dbres.changes = 2
    /\ Matching(saved_videos, req[r].params.user_id, req[r].params.video_id) = {}

\* C7: when the store runs the INSERT of save-video, it adds exactly one
\* row owned by the gated user, whose generated id differs from the id of
\* every existing row, so the number of saved entries for (user, videoId)
\* grows by one, also when the user has saved that video before; the call
\* answers with that id.  Ids are never shared by two rows.
C7_SaveAlwaysInserts ==
  /\ [](\A a, b \in saved_videos : a.id = b.id => a = b)
  /\ [][\A r \in Slots :
          LET p == req[r].params
              before == Matching(saved_videos, p.user_id, p.video_id)
              after == Matching(saved_videos', p.user_id, p.video_id)
              added == saved_videos' \ saved_videos
          IN /\ Runs(r, "save-video") =>
                  /\ Cardinality(added) = 1
                  /\ saved_videos \subseteq saved_videos'
                  /\ \A row \in added :
                       /\ row.id \notin {old.id : old \in saved_videos}
                       /\ row.id = req'[r].dbres.lastID
                       /\ row.user_id = p.user_id /\ row.video_id = p.video_id
                       /\ row.title = p.title /\ row.thumbnail = p.thumbnail
                       /\ row.channel = p.channel
                  /\ Cardinality(after) = Cardinality(before) + 1
             /\ CallsBack(r, "save-video") =>
                  /\ req'[r].res = <<SuccessResponse(req[r].dbres.lastID)>>
                  /\ UNCHANGED Tables]_vars

\* the same user has saved the same video twice: two rows, two ids
C7_Witness ==
  \E a, b \in saved_videos :
    a.id # b.id /\ a.user_id = b.user_id /\ a.video_id = b.video_id

\* C8: when the store runs the DELETE of unlike-video(v) for user u, no
\* liked entry of (u, v) is left and nothing else is touched; the call
\* answers success when an entry existed, and 404 'Like not found' with the
\* store unchanged when none did.
C8_UnlikeRemoves ==
  [][\A r \in Slots :
       LET u == req[r].params.user_id
           v == req[r].params.video_id
           N == Cardinality(Matching(liked_videos, u, v))
       IN /\ Runs(r, "unlike-video") =>
               /\ Matching(liked_videos', u, v) = {}
               /\ liked_videos' = liked_videos \ Matching(liked_videos, u, v)
               /\ req'[r].dbres.changes = N
               /\ N = 0 => liked_videos' = liked_videos
               /\ UNCHANGED <<saved_videos, seq_saved, seq_liked>>
          /\ CallsBack(r, "unlike-video") =>
               /\ req[r].dbres.changes >= 1 => req'[r].res = <<SuccessResponse(0)>>
               /\ req[r].dbres.changes = 0 =>
                    /\ Len(req'[r].res) = 1
                    /\ req'[r].res[1].status = 404
                    /\ req'[r].res[1].error = "Like not found"
               /\ UNCHANGED Tables]_vars

\* an unlike-video request whose DELETE removed the entry of an earlier like,
\* while the other user still likes the same video
C8_Witness ==
  \E r \in Slots :
    /\ req[r].op = "unlike-video" /\ req[r].pc = "cb"
    /\ req[r].dbres.err = NoErr /\ req[r].dbres.changes = 1
    /\ Matching(liked_videos, req[r].params.user_id, req[r].params.video_id) = {}
    /\ \E row \in liked_videos : row.video_id = req[r].params.video_id

LikedVideosRequests == {r \in Slots : req[r].op = "liked-videos" /\ req[r].pc \in {"fetch", "done"}
                                      /\ req[r].fetches # <<>>}
FetchStates(r) == {req[r].fetches[i].st : i \in 1..Len(req[r].fetches)}

\* C3: a liked-videos request with a non-empty liked-id list, one of whose
\* fetches has failed, has been answered 500 'Failed to fetch video
\* details' and with no enriched entry, whatever the other fetches did and
\* in whatever order they completed.
C3_AnyFailureFailsAll ==
  \A r \in LikedVideosRequests :
    "fail" \in FetchStates(r) =>
      /\ Len(req[r].res) = 1
      /\ req[r].res[1].status = 500
      /\ req[r].res[1].error = "Failed to fetch video details"
      /\ req[r].res[1].list = <<>>

\* every fetch of a request has completed, one resolved and one rejected
C3_Witness ==
  \E r \in LikedVideosRequests :
    /\ FetchStates(r) = {"ok", "fail"}
    /\ req[r].res = <<EnrichmentFailed>>

\* C4: a liked-videos request all of whose fetches succeeded has been
\* answered 200 with a list as long as the liked-id list read from the
\* store, whose i-th entry carries the i-th liked id, and the title,
\* thumbnailUrl (as thumbnail), uploader (as channel) and duration fetched
\* for it.
C4_EnrichedInOrder ==
  \A r \in LikedVideosRequests :
    FetchStates(r) = {"ok"} =>
      /\ Len(req[r].res) = 1
      /\ req[r].res[1].status = 200
      /\ Len(req[r].res[1].list) = Len(req[r].dbres.rows)
      /\ \A i \in 1..Len(req[r].dbres.rows) :
           LET entry == req[r].res[1].list[i]
               data == req[r].fetches[i].data
           IN /\ entry.videoId = req[r].dbres.rows[i].videoId
              /\ data \in StreamData(entry.videoId)
              /\ entry.title = data.title
              /\ entry.thumbnail = data.thumbnailUrl
              /\ entry.channel = data.uploader
              /\ entry.duration = data.duration

\* two different liked ids, both fetched, answered in the order read
C4_Witness ==
  \E r \in LikedVideosRequests :
    /\ FetchStates(r) = {"ok"}
    /\ Len(req[r].dbres.rows) = 2
    /\ req[r].dbres.rows[1].videoId # req[r].dbres.rows[2].videoId
    /\ Len(req[r].res) = 1 /\ Len(req[r].res[1].list) = 2

\* the rows of a set in the order of decreasing id, the reverse of the
\* order in which they were inserted
NewestFirst(S) == CHOOSE q \in Arrangements(S) : \A i, j \in 1..Len(q) : i < j => q[i].id > q[j].id
DistinctLikedAt(S) == \A a, b \in S : a # b => a.liked_at # b.liked_at

\* C10: when the store runs the SELECT of liked-videos for a user whose
\* liked entries were all stamped at different times, the list read holds
\* their video ids in the reverse of the order in which they were liked.
C10_LikedNewestFirst ==
  [][\A r \in Slots :
       LET own == OwnedBy(liked_videos, req[r].params.user_id)
       IN (Runs(r, "liked-videos") /\ DistinctLikedAt(own)) =>
            /\ Len(req'[r].dbres.rows) = Cardinality(own)
            /\ \A i \in 1..Cardinality(own) :
                 req'[r].dbres.rows[i].videoId = NewestFirst(own)[i].video_id]_vars

\* a list of two different ids liked at different times has been read
C10_Witness ==
  \E r \in Slots :
    /\ req[r].op = "liked-videos" /\ req[r].pc = "cb" /\ req[r].dbres.err = NoErr
    /\ Len(req[r].dbres.rows) = 2
    /\ req[r].dbres.rows[1].videoId # req[r].dbres.rows[2].videoId
    /\ DistinctLikedAt(OwnedBy(liked_videos, req[r].params.user_id))
    /\ Cardinality(OwnedBy(liked_videos, req[r].params.user_id)) = 2

\* a request takes slot r in this step
Arrives(r) == req[r].pc = "idle" /\ req'[r].pc # "idle"

\* the request taking slot r is answered with the given status in this step
\* and finished: nothing was handed to the store, no fetch was issued, the
\* tables are as before
RefusedAtOnce(r, status) ==
  /\ req'[r].pc = "done"
  /\ Len(req'[r].res) = 1
  /\ req'[r].res[1].status = status
  /\ req'[r].res[1].list = <<>>
  /\ req'[r].dbres = NoDbRes
  /\ req'[r].fetches = <<>>
  /\ UNCHANGED Tables

\* request r enters one of the six gated handlers with session s
GatedRequest(r, s) ==
  \/ req'[r].op = "save-video" /\ \E b \in SaveBodies : save_video(r, s, b)
  \/ req'[r].op = "like-video" /\ \E b \in LikeBodies : like_video(r, s, b)
  \/ req'[r].op = "unlike-video" /\ \E v \in Videos : unlike_video(r, s, v)
  \/ req'[r].op = "unsave-video" /\ \E v \in Videos : unsave_video(r, s, v)
  \/ req'[r].op = "saved-videos" /\ saved_videos_get(r, s)
  \/ req'[r].op = "liked-videos" /\ liked_videos_get(r, s)

GatedOps == {"save-video", "like-video", "unlike-video", "unsave-video",
             "saved-videos", "liked-videos"}

\* C5: a request to any of the six gated operations whose session carries
\* no user id is answered 401 in the handler's first step and is finished
\* by it: no statement is handed to the store, no fetch is issued, and the
\* saved and liked tables are unchanged.
C5_UnauthorizedTouchesNothing ==
  [][\A r \in Slots :
       Arrives(r) =>
         \/ req'[r].op \in GatedOps /\ RefusedAtOnce(r, 401)
         \/ ~ \E s \in Sessions : session[s] = NoUser /\ GatedRequest(r, s)]_vars

\* a query and a command were both refused with 401 while the tables hold rows
C5_Witness ==
  /\ req[1].op = "liked-videos" /\ req[1].pc = "done" /\ req[1].res = <<Unauthorized>>
  /\ req[2].op = "save-video" /\ req[2].pc = "done" /\ req[2].res = <<Unauthorized>>
  /\ saved_videos # {} /\ liked_videos # {}

\* C9: a save-video request of a logged-in session that lacks videoId,
\* title, thumbnail or channel, and a like-video request of a logged-in
\* session that lacks videoId, is answered 400 in the handler's first step
\* and is finished by it: no statement is handed to the store and the saved
\* and liked tables are unchanged.
C9_InvalidBodyTouchesNothing ==
  [][\A r \in Slots :
       Arrives(r) =>
         /\ req'[r].op = "save-video" =>
              \/ RefusedAtOnce(r, 400)
              \/ ~ \E s \in Sessions, b \in SaveBodies :
                     /\ session[s] # NoUser
                     /\ b.videoId = "" \/ b.title = "" \/ b.thumbnail = "" \/ b.channel = ""
                     /\ save_video(r, s, b)
         /\ req'[r].op = "like-video" =>
              \/ RefusedAtOnce(r, 400)
              \/ ~ \E s \in Sessions, b \in LikeBodies :
                     /\ session[s] # NoUser
                     /\ b.videoId = ""
                     /\ like_video(r, s, b)]_vars

\* a save-video request was refused with 400 while the tables hold rows
C9_Witness ==
  /\ req[2].op = "save-video" /\ req[2].pc = "done"
  /\ req[2].res = <<ErrorResponse(400, "All video fields are required")>>
  /\ saved_videos # {} /\ liked_videos # {}
\* C11: when the SELECT of liked-videos runs for a user who owns no liked
\* entry it reads the empty list, and the callback that receives an empty
\* list answers 200 with the empty list at once: no fetch is issued and the
\* tables are unchanged.
C11_EmptyLikedList ==
  [][\A r \in Slots :
       /\ (Runs(r, "liked-videos") /\ OwnedBy(liked_videos, req[r].params.user_id) = {})
            => req'[r].dbres.rows = <<>>
       /\ (/\ req[r].pc = "cb" /\ req[r].op = "liked-videos"
           /\ req[r].dbres.err = NoErr /\ req[r].dbres.rows = <<>>
           /\ req'[r] # req[r])
            => /\ req'[r].pc = "done"
               /\ req'[r].res = <<ListResponse(<<>>)>>
               /\ req'[r].fetches = <<>>
               /\ UNCHANGED Tables]_vars

\* a user without likes was answered the empty list while the other user
\* has a liked entry
C11_Witness ==
  \E r \in Slots :
    /\ req[r].op = "liked-videos" /\ req[r].pc = "done"
    /\ req[r].res = <<ListResponse(<<>>)>>
    /\ OwnedBy(liked_videos, req[r].params.user_id) = {}
    /\ liked_videos # {}

\* C12: a liked-videos request in its fan-out has no response while every
\* fetch is pending; a 200 response has been sent only if every fetch has
\* resolved, and the 500 'Failed to fetch video details' response only if
\* some fetch has been rejected.
C12_ResponseOnlyWhenSettled ==
  \A r \in LikedVideosRequests :
    /\ Len(req[r].res) <= 1
    /\ FetchStates(r) = {"pending"} => req[r].res = <<>>
    /\ req[r].res # <<>> =>
         /\ req[r].res[1].status \in {200, 500}
         /\ req[r].res[1].status = 200 => FetchStates(r) = {"ok"}
         /\ req[r].res[1].status = 500 =>
              req[r].res[1] = EnrichmentFailed /\ "fail" \in FetchStates(r)

\* one fetch has resolved, the other is still in flight: nothing is sent yet
C12_Witness ==
  \E r \in LikedVideosRequests :
    FetchStates(r) = {"ok", "pending"} /\ req[r].res = <<>>
\* a response of request r has been sent
Responded(r) == req[r].res # <<>>

\* C13: every request to a gated operation gets exactly one response when
\* the store calls and fetches it issued complete: a request that has
\* arrived is eventually answered, a finished request has one response, no
\* request ever has two, and a response once sent is never replaced, also
\* when further fetches of a liked-videos request fail or resolve after it.
C13_ExactlyOneResponse ==
  /\ [](\A r \in Slots : /\ Len(req[r].res) <= 1
                         /\ req[r].pc = "done" => Len(req[r].res) = 1)
  /\ [][\A r \in Slots :
          Responded(r) => (req'[r].res = req[r].res \/ req'[r] = IdleReq)]_vars
  /\ \A r \in Slots : (req[r].pc # "idle") ~> Responded(r)

\* both fetches of a liked-videos request failed, the second one after the
\* failure response was sent: the request holds that one response
C13_Witness ==
  \E r \in LikedVideosRequests :
    /\ Len(req[r].fetches) = 2
    /\ FetchStates(r) = {"fail"}
    /\ req[r].pc = "done"
    /\ req[r].res = <<EnrichmentFailed>>
\* the entries of a table that belong to user u
EntriesOf(tbl, u) == {row \in tbl : row.user_id = u}
\* no entry of a user other than u is added, removed or changed in this step
OthersUntouched(u) ==
  \A w \in UserIds \ {u} :
    /\ EntriesOf(saved_videos', w) = EntriesOf(saved_videos, w)
    /\ EntriesOf(liked_videos', w) = EntriesOf(liked_videos, w)
\* an entry that stays keeps its owner
OwnersKept(before, after) ==
  \A a \in before, b \in after : a.id = b.id => a.user_id = b.user_id
CommandOps == {"save-video", "like-video", "unlike-video", "unsave-video"}

\* C14: a gated request that reaches the store carries the user id of its
\* session as user_id; the statement of a save, unsave, like or unlike
\* request of user u leaves every entry of every other user as it was and
\* adds only entries owned by u; an entry never changes owner; and the list
\* read for saved-videos or liked-videos of u has one element per entry
\* owned by u, each taken from such an entry.
C14_OwnershipBound ==
  [][/\ OwnersKept(saved_videos, saved_videos')
     /\ OwnersKept(liked_videos, liked_videos')
     /\ \A r \in Slots :
          LET u == req[r].params.user_id
          IN /\ (Arrives(r) /\ req'[r].pc = "db") =>
                  /\ req'[r].params.user_id = session[req'[r].sid]
                  /\ req'[r].params.user_id \in UserIds
             /\ (\E op \in CommandOps : Runs(r, op)) =>
                  /\ OthersUntouched(u)
                  /\ \A row \in (saved_videos' \ saved_videos) \cup
                                 (liked_videos' \ liked_videos) : row.user_id = u
             /\ Runs(r, "saved-videos") =>
                  /\ Len(req'[r].dbres.rows) = Cardinality(EntriesOf(saved_videos, u))
                  /\ \A i \in 1..Len(req'[r].dbres.rows) :
                       \E row \in EntriesOf(saved_videos, u) :
                         /\ row.video_id = req'[r].dbres.rows[i].videoId
                         /\ row.title = req'[r].dbres.rows[i].title
                         /\ row.thumbnail = req'[r].dbres.rows[i].thumbnail
                         /\ row.channel = req'[r].dbres.rows[i].channel
                         /\ row.saved_at = req'[r].dbres.rows[i].savedAt
             /\ CallsBack(r, "saved-videos") =>
                  req'[r].res = <<ListResponse(req[r].dbres.rows)>>
             /\ Runs(r, "liked-videos") =>
                  /\ Len(req'[r].dbres.rows) = Cardinality(EntriesOf(liked_videos, u))
                  /\ \A i \in 1..Len(req'[r].dbres.rows) :
                       \E row \in EntriesOf(liked_videos, u) :
                         row.video_id = req'[r].dbres.rows[i].videoId]_vars

\* the DELETE of an unsave-video request of one user removed that user's
\* entry while the other user keeps an entry for the same video
C14_Witness ==
  \E r \in Slots :
    /\ req[r].op = "unsave-video" /\ req[r].pc = "cb"
    /\ req[r].dbres.err = NoErr /\ req[r].dbres.changes = 1
    /\ EntriesOf(saved_videos, req[r].params.user_id) = {}
    /\ \E row \in saved_videos :
         row.video_id = req[r].params.video_id /\ row.user_id # req[r].params.user_id
\* the video ids of a list of likes or of enriched entries
VideoIdsOf(l) == [i \in 1..Len(l) |-> l[i].videoId]

\* C15: from the moment the SELECT of a liked-videos request has run, the
\* list it read stays as read until the request is finished, whatever
\* like-video and unlike-video requests do to the table meanwhile: once the
\* fan-out has started there is one fetch per id read, a resolved fetch
\* holds the data of the id at its position, and a 200 response lists
\* exactly the ids read, in that order.
\* No step of a liked-videos request changes the saved or liked tables.
C15_LikedReadOnce ==
  [][\A r \in Slots :
       /\ (/\ req[r].op = "liked-videos" /\ req[r].pc \in {"cb", "fetch"}
           /\ req[r].dbres.err = NoErr)
            => /\ req'[r].dbres.rows = req[r].dbres.rows
               /\ req'[r].pc \in {"fetch", "done"} =>
                    Len(req'[r].fetches) = Len(req[r].dbres.rows)
               /\ \A i \in 1..Len(req'[r].fetches) :
                    req'[r].fetches[i].st = "ok" =>
                      req'[r].fetches[i].data \in StreamData(req[r].dbres.rows[i].videoId)
               /\ (req'[r].res # <<>> /\ req'[r].res[1].status = 200) =>
                    VideoIdsOf(req'[r].res[1].list) = VideoIdsOf(req[r].dbres.rows)
       /\ ((req[r].op = "liked-videos" \/ req'[r].op = "liked-videos") /\ req'[r] # req[r])
            => UNCHANGED Tables]_vars

\* a liked-videos request was answered with the id it had read, while the
\* user has meanwhile unliked that video and liked another one
C15_Witness ==
  \E r \in Slots :
    /\ req[r].op = "liked-videos" /\ req[r].pc = "done"
    /\ Len(req[r].res) = 1 /\ req[r].res[1].status = 200
    /\ Len(req[r].res[1].list) = 1
    /\ LET own == {row \in liked_videos : row.user_id = req[r].params.user_id}
       IN /\ own # {}
          /\ \A row \in own : row.video_id # req[r].res[1].list[1].videoId
\* the step in which the login of request r succeeds for session s
LoginSucceeds(r, s) ==
  /\ req[r].op = "login" /\ req[r].pc = "bcrypt" /\ req[r].sid = s
  /\ req[r].dbres.rows # <<>>
  /\ req[r].dbres.rows[1].email = req[r].params.email
  /\ req[r].dbres.rows[1].password = Hash(req[r].params.password)
  /\ req'[r].pc = "done"
  /\ req'[r].res = <<SuccessResponse(req[r].dbres.rows[1].id)>>
  /\ session'[s] = req[r].dbres.rows[1].id
\* the step in which the session store destroys session s for the logout of
\* request r
LogoutSucceeds(r, s) ==
  /\ req[r].op = "logout" /\ req[r].pc = "db" /\ req[r].sid = s
  /\ req'[r].pc = "cb" /\ req'[r].dbres.err = NoErr
  /\ session'[s] = NoUser
\* a login request is answered with a failure in this step
LoginFails(r) ==
  /\ req'[r].op = "login" /\ req'[r].pc = "done" /\ req[r].pc # "done"
  /\ req'[r].res[1].status # 200

\* C16: no session is authenticated at the start; a session gets a user id
\* only in the step in which a login with that user's email and password
\* succeeds, and loses it only in the step in which its logout destroys it;
\* a logout whose destroy went through answers success, and a login that
\* fails leaves every session as it was.  A gated operation is refused with
\* 401 exactly when its session holds no user id at that moment, so it is
\* let through exactly between a successful login and the next successful
\* logout of its session.
C16_AuthorizedBetweenLoginAndLogout ==
  /\ \A s \in Sessions : session[s] = NoUser
  /\ [][/\ \A s \in Sessions :
            session'[s] # session[s] =>
              IF session'[s] # NoUser THEN \E r \in Slots : LoginSucceeds(r, s)
              ELSE \E r \in Slots : LogoutSucceeds(r, s)
        /\ \A r \in Slots :
            /\ LoginFails(r) => session' = session
            /\ CallsBack(r, "logout") => req'[r].res = <<SuccessResponse(0)>>
            /\ (Arrives(r) /\ req'[r].op \in GatedOps) =>
                 \A s \in Sessions :
                   GatedRequest(r, s) => (RefusedAtOnce(r, 401) <=> session[s] = NoUser)]_vars

\* a user logged in and saved a video, the session was logged out, and the
\* next gated request was refused with 401
C16_Witness ==
  /\ saved_videos # {}
  /\ \A s \in Sessions : session[s] = NoUser
  /\ \E r \in Slots :
       req[r].op \in GatedOps /\ req[r].pc = "done" /\ req[r].res = <<Unauthorized>>
=============================================================================
